---- MODULE Spec2Model ----
(***************************************************************************)
(* Model of native/peer_cred.cc: the N-API function GetPeerCred, which     *)
(* reads the credentials of the peer of a connected local socket with      *)
(* getsockopt.  The three preprocessor branches (__linux__, __APPLE__,     *)
(* neither) are the three values of `platform`.  Several threads may be    *)
(* inside GetPeerCred at once; every thread has its own stack frame        *)
(* (info, fd, cred, pid) and its own errno.  The kernel's per-descriptor   *)
(* state is `sock`, changed only by the environment (close, connect).      *)
(***************************************************************************)
EXTENDS Integers, Sequences, FiniteSets, TLC

\* ------------------------------------------------------------------ bounds
\* threads that may be inside GetPeerCred at once in ConcSpec
NumThreads == 2
\* how many times the environment changes a descriptor in one behaviour
MaxEpoch == 2

\* --------------------------------------------------------- program numbers
\* 2^30.  2^31 and 2^32 are written as sums of it: TLC integers are 32-bit.
TwoPow30 == 1073741824

Platforms == {"linux", "apple", "other"}

\* Descriptor numbers the kernel may have open in this process.
Fds == {0, 3}

\* ------------------------------------------------------------ JS arguments
\* A JavaScript value handed in by the binding layer.  A number is finite,
\* NaN or an infinity; a finite number is sign * (hi * 2^31 + lo + half/2).
JsString == [type |-> "string", cls |-> "none", neg |-> FALSE, hi |-> 0, lo |-> 0, half |-> 0]
JsUndefined == [type |-> "undefined", cls |-> "none", neg |-> FALSE, hi |-> 0, lo |-> 0, half |-> 0]
JsNaN == [type |-> "number", cls |-> "nan", neg |-> FALSE, hi |-> 0, lo |-> 0, half |-> 0]
JsInfinity == [type |-> "number", cls |-> "inf", neg |-> FALSE, hi |-> 0, lo |-> 0, half |-> 0]
JsNum(neg, hi, lo, half) ==
    [type |-> "number", cls |-> "finite", neg |-> neg, hi |-> hi, lo |-> lo, half |-> half]
JsInt(n) == IF n < 0 THEN JsNum(TRUE, 0, -n, 0) ELSE JsNum(FALSE, 0, n, 0)

\* The argument lists callers pass: no argument, a string,
\* undefined, descriptors 3, 0 and -1, 3.5, NaN, Infinity, 2^32 + 3, and a
\* descriptor followed by a second argument.
ArgLists ==
    { <<>>, <<JsString>>, <<JsUndefined>>,
      <<JsInt(3)>>, <<JsInt(0)>>, <<JsInt(-1)>>,
      <<JsNum(FALSE, 0, 3, 1)>>, <<JsNaN>>, <<JsInfinity>>,
      <<JsNum(FALSE, 2, 3, 0)>>, <<JsInt(3), JsString>> }

\* napi_value::IsNumber
IsNumber(v) == v.type = "number"

\* Mutant of ArgOk: only the argument count is checked.
ArgOk_LengthOnly(a) == Len(a) >= 1

\* The guard of GetPeerCred's first statement, negated: the argument is
\* present and is a number.
ArgOk(a) == Len(a) >= 1 /\ IsNumber(a[1])

\* Napi::Number::Int32Value (napi_get_value_int32): a non-finite number gives
\* 0; a finite one is truncated toward zero (the half is dropped from the
\* magnitude) and reduced modulo 2^32 into [-2^31, 2^31).
Int32Value(v) ==
    IF v.type # "number" \/ v.cls # "finite" THEN 0
    ELSE LET b == v.hi % 2
             lo == v.lo
         IN  IF ~v.neg
             THEN IF b = 0 THEN lo ELSE (lo - TwoPow30) - TwoPow30
             ELSE IF b = 0 THEN -lo
                  ELSE IF lo = 0 THEN (0 - TwoPow30) - TwoPow30
                       ELSE (TwoPow30 - lo) + TwoPow30

\* static_cast<double> of a 32-bit pid_t, uid_t or gid_t: every 32-bit
\* integer is a double, the cast is exact.
StaticCastDouble(n) == n

\* ------------------------------------------------------------ kernel state
\* What the kernel holds for one descriptor: closed, an open regular file,
\* or a connected local socket with the peer's pid, uid, gid and group list.
Closed == [st |-> "closed", pid |-> 0, uid |-> 0, gid |-> 0, groups |-> <<>>]
RegularFile == [st |-> "file", pid |-> 0, uid |-> 0, gid |-> 0, groups |-> <<>>]
Connected(pid, uid, gid, groups) ==
    [st |-> "conn", pid |-> pid, uid |-> uid, gid |-> gid, groups |-> groups]

\* The group list of a peer is never empty: its head is the peer's
\* effective group.
Peers ==
    { Connected(4242, 1000, 1000, <<1000, 20>>),
      Connected(77, 0, 0, <<20, 0, 5>>),
      Connected(4242, 501, 20, <<20>>) }

KernelStates == {Closed, RegularFile} \cup Peers

\* ------------------------------------------------------------------- state
VARIABLES
    platform,       \* which preprocessor branch was compiled
    epidSupported,  \* whether the running kernel knows LOCAL_PEEREPID
    sock,           \* kernel state of every descriptor in Fds
    epoch,          \* how often the environment has changed a descriptor
    pc,             \* per thread: "idle", "branch", "pidq" or "done"
    info,           \* per thread: the CallbackInfo argument list
    fd,             \* per thread: the local `fd`
    cred,           \* per thread: the local `cred` (ucred or xucred)
    pid,            \* per thread: the local `pid` of the __APPLE__ branch
    errno,          \* per thread: errno, from a failed query to the return
    syscalls,       \* per thread: getsockopt calls issued by the current call
    out,            \* per thread: pending exception and returned value
    e0,             \* per thread: the epoch at which it was called
    first           \* the first outcome a caller got in the current epoch

vars == <<platform, epidSupported, sock, epoch, pc, info, fd, cred, pid, errno,
          syscalls, out, e0, first>>

\* The contents of a stack slot nothing has been written to yet.  The code
\* reads `cred` only after a successful getsockopt has filled it.
NoCred == [pid |-> 0, uid |-> 0, gid |-> 0, cr_uid |-> 0, cr_groups |-> <<>>]

\* ---------------------------------------------------------------- outcomes
\* What the caller sees: the value returned and the exception left pending.
NoException == [type |-> "none", message |-> ""]
JsNull == [null |-> TRUE, pid |-> 0, uid |-> 0, gid |-> 0]
NoOutcome == [exception |-> NoException, value |-> JsNull, returned |-> FALSE]

\* Napi::TypeError::New / Napi::Error::New(env, message)
\* .ThrowAsJavaScriptException(); return env.Null();
Throw(type, message) ==
    [exception |-> [type |-> type, message |-> message], value |-> JsNull,
     returned |-> TRUE]

\* result.Set("pid", ..); result.Set("uid", ..); result.Set("gid", ..);
\* return result;
ReturnObject(p, u, g) ==
    [exception |-> NoException,
     value |-> [null |-> FALSE, pid |-> StaticCastDouble(p),
                uid |-> StaticCastDouble(u), gid |-> StaticCastDouble(g)],
     returned |-> TRUE]

\* The error kinds of the specification, as the code raises them.
InvalidInput == Throw("TypeError", "Expected fd as number")
QueryFailedLinux == Throw("Error", "getsockopt(SO_PEERCRED) failed")
QueryFailedApple == Throw("Error", "getsockopt(LOCAL_PEERCRED) failed")
UnsupportedPlatform == Throw("Error", "Unsupported platform")

IsQueryFailed(o) == o \in {QueryFailedLinux, QueryFailedApple}
IsSuccess(o) == o.returned /\ o.exception = NoException /\ ~o.value.null

\* ------------------------------------------------------------------ kernel
\* The kernel's state for descriptor number n; a number that is not open in
\* the process behaves like a closed descriptor.
KernelOf(s, n) == IF n \in Fds THEN s[n] ELSE Closed

\* The OS error of a socket-option query on kernel state k ("0": none).
OsError(k) ==
    IF k.st = "closed" THEN "EBADF"
    ELSE IF k.st = "file" THEN "ENOTSOCK"
    ELSE "0"

\* getsockopt(fd, SOL_SOCKET, SO_PEERCRED, &cred, &len)
GetsockoptPeercred(k) ==
    IF OsError(k) # "0"
    THEN [rc |-> -1, errno |-> OsError(k), cred |-> NoCred]
    ELSE [rc |-> 0, errno |-> "0",
          cred |-> [pid |-> k.pid, uid |-> k.uid, gid |-> k.gid,
                    cr_uid |-> 0, cr_groups |-> <<>>]]

\* getsockopt(fd, SOL_LOCAL, LOCAL_PEERCRED, &cred, &len)
GetsockoptLocalPeercred(k) ==
    IF OsError(k) # "0"
    THEN [rc |-> -1, errno |-> OsError(k), cred |-> NoCred]
    ELSE [rc |-> 0, errno |-> "0",
          cred |-> [pid |-> 0, uid |-> 0, gid |-> 0,
                    cr_uid |-> k.uid, cr_groups |-> k.groups]]

\* getsockopt(fd, SOL_LOCAL, LOCAL_PEEREPID, &pid, &pid_len) with `pid`
\* holding `before`: on failure the kernel leaves the buffer alone.
GetsockoptLocalPeerepid(k, supported, before) ==
    IF OsError(k) # "0"
    THEN [rc |-> -1, errno |-> OsError(k), pid |-> before]
    ELSE IF ~supported
    THEN [rc |-> -1, errno |-> "ENOPROTOOPT", pid |-> before]
    ELSE [rc |-> 0, errno |-> "0", pid |-> k.pid]

\* Mutant of Failed: the test looks for a positive return value.
Failed_Positive(rc) == rc > 0

\* `getsockopt(...) < 0`
Failed(rc) == rc < 0

\* errno after a system call that returned r: set on failure only.
ErrnoAfter(old, r) == IF r.rc < 0 THEN r.errno ELSE old

\* `pid_t pid = 0;`
PidDefault == 0

\* Mutant of LinuxResult: uid and gid change places.
LinuxResult_Swapped(c) == ReturnObject(c.pid, c.gid, c.uid)

\* The __linux__ result object: the three fields of the ucred.
LinuxResult(c) == ReturnObject(c.pid, c.uid, c.gid)

\* Mutant of AppleResult: the last entry of the group list is taken.
AppleResult_LastGroup(p, c) ==
    ReturnObject(p, c.cr_uid, c.cr_groups[Len(c.cr_groups)])

\* The __APPLE__ result object: pid, cred.cr_uid, cred.cr_groups[0]
\* (sequences count from 1).
AppleResult(p, c) == ReturnObject(p, c.cr_uid, c.cr_groups[1])

\* -------------------------------------------------------------------- Init
NoFirst == [set |-> FALSE, fd |-> 0, epoch |-> 0, errno |-> "0", out |-> NoOutcome]

\* Module load: no thread is inside GetPeerCred; the build fixed the
\* platform; the kernel holds some state s0 for the descriptors.
InitWith(T, S0) ==
    /\ platform \in Platforms
    /\ epidSupported \in BOOLEAN
    /\ sock \in S0
    /\ epoch = 0
    /\ pc = [t \in T |-> "idle"]
    /\ info = [t \in T |-> <<>>]
    /\ fd = [t \in T |-> 0]
    /\ cred = [t \in T |-> NoCred]
    /\ pid = [t \in T |-> 0]
    /\ errno = [t \in T |-> "0"]
    /\ syscalls = [t \in T |-> 0]
    /\ out = [t \in T |-> NoOutcome]
    /\ e0 = [t \in T |-> 0]
    /\ first = NoFirst

\* ----------------------------------------------------------------- actions
\* Mutant of Call: `fd` is a static variable, one for all threads.
Call_StaticFd(t, a) ==
    /\ pc[t] = "idle"
    /\ info' = [info EXCEPT ![t] = a]
    /\ syscalls' = [syscalls EXCEPT ![t] = 0]
    /\ IF ~(Len(a) >= 1 /\ IsNumber(a[1]))
       THEN /\ out' = [out EXCEPT ![t] = InvalidInput]
            /\ pc' = [pc EXCEPT ![t] = "done"]
            /\ UNCHANGED <<fd, e0>>
       ELSE /\ fd' = [u \in DOMAIN fd |-> Int32Value(a[1])]
            /\ e0' = [e0 EXCEPT ![t] = epoch]
            /\ pc' = [pc EXCEPT ![t] = "branch"]
            /\ UNCHANGED out
    /\ UNCHANGED <<platform, epidSupported, sock, epoch, cred, pid, errno, first>>

\* GetPeerCred, entry to the conversion of the argument: the argument check
\* and `int fd = info[0].As<Napi::Number>().Int32Value();`
Call(t, a) ==
    /\ pc[t] = "idle"
    /\ info' = [info EXCEPT ![t] = a]
    /\ syscalls' = [syscalls EXCEPT ![t] = 0]
    /\ IF ~ArgOk(a)
       THEN /\ out' = [out EXCEPT ![t] = InvalidInput]
            /\ pc' = [pc EXCEPT ![t] = "done"]
            /\ UNCHANGED <<fd, e0>>
       ELSE /\ fd' = [fd EXCEPT ![t] = Int32Value(a[1])]
            /\ e0' = [e0 EXCEPT ![t] = epoch]
            /\ pc' = [pc EXCEPT ![t] = "branch"]
            /\ UNCHANGED out
    /\ UNCHANGED <<platform, epidSupported, sock, epoch, cred, pid, errno, first>>

\* Mutant of LinuxQuery: the call closes the descriptor it was handed.
LinuxQuery_ClosesFd(t) ==
    /\ platform = "linux"
    /\ pc[t] = "branch"
    /\ LET r == GetsockoptPeercred(KernelOf(sock, fd[t]))
       IN  /\ syscalls' = [syscalls EXCEPT ![t] = @ + 1]
           /\ errno' = [errno EXCEPT ![t] = ErrnoAfter(@, r)]
           /\ cred' = [cred EXCEPT ![t] = r.cred]
           /\ out' = [out EXCEPT ![t] =
                  IF r.rc < 0 THEN QueryFailedLinux
                  ELSE ReturnObject(r.cred.pid, r.cred.uid, r.cred.gid)]
    /\ sock' = [n \in Fds |-> IF n = fd[t] THEN Closed ELSE sock[n]]
    /\ pc' = [pc EXCEPT ![t] = "done"]
    /\ UNCHANGED <<platform, epidSupported, epoch, info, fd, pid, e0, first>>

\* #ifdef __linux__: one SO_PEERCRED query, then the result object.
LinuxQuery(t) ==
    /\ platform = "linux"
    /\ pc[t] = "branch"
    /\ LET r == GetsockoptPeercred(KernelOf(sock, fd[t]))
       IN  /\ syscalls' = [syscalls EXCEPT ![t] = @ + 1]
           /\ errno' = [errno EXCEPT ![t] = ErrnoAfter(@, r)]
           /\ cred' = [cred EXCEPT ![t] = r.cred]
           /\ out' = [out EXCEPT ![t] =
                  IF Failed(r.rc) THEN QueryFailedLinux
                  ELSE LinuxResult(r.cred)]
    /\ pc' = [pc EXCEPT ![t] = "done"]
    /\ UNCHANGED <<platform, epidSupported, sock, epoch, info, fd, pid, e0, first>>

\* #elif defined(__APPLE__): the mandatory LOCAL_PEERCRED query.
AppleQueryCred(t) ==
    /\ platform = "apple"
    /\ pc[t] = "branch"
    /\ LET r == GetsockoptLocalPeercred(KernelOf(sock, fd[t]))
       IN  /\ syscalls' = [syscalls EXCEPT ![t] = @ + 1]
           /\ errno' = [errno EXCEPT ![t] = ErrnoAfter(@, r)]
           /\ cred' = [cred EXCEPT ![t] = r.cred]
           /\ IF Failed(r.rc)
              THEN /\ out' = [out EXCEPT ![t] = QueryFailedApple]
                   /\ pc' = [pc EXCEPT ![t] = "done"]
              ELSE /\ pc' = [pc EXCEPT ![t] = "pidq"]
                   /\ UNCHANGED out
    /\ UNCHANGED <<platform, epidSupported, sock, epoch, info, fd, pid, e0, first>>

\* Mutant of AppleQueryPid: a failed LOCAL_PEEREPID query fails the call.
AppleQueryPid_Fatal(t) ==
    /\ platform = "apple"
    /\ pc[t] = "pidq"
    /\ LET r == GetsockoptLocalPeerepid(KernelOf(sock, fd[t]), epidSupported, 0)
       IN  /\ syscalls' = [syscalls EXCEPT ![t] = @ + 1]
           /\ errno' = [errno EXCEPT ![t] = ErrnoAfter(@, r)]
           /\ pid' = [pid EXCEPT ![t] = r.pid]
           /\ out' = [out EXCEPT ![t] =
                  IF r.rc < 0 THEN Throw("Error", "getsockopt(LOCAL_PEEREPID) failed")
                  ELSE ReturnObject(r.pid, cred[t].cr_uid, cred[t].cr_groups[1])]
    /\ pc' = [pc EXCEPT ![t] = "done"]
    /\ UNCHANGED <<platform, epidSupported, sock, epoch, info, fd, cred, e0, first>>

\* The best-effort LOCAL_PEEREPID query, whose return value is not looked
\* at, and the result object built from pid, cred.cr_uid, cred.cr_groups[0].
AppleQueryPid(t) ==
    /\ platform = "apple"
    /\ pc[t] = "pidq"
    /\ LET r == GetsockoptLocalPeerepid(KernelOf(sock, fd[t]), epidSupported,
                                        PidDefault)
       IN  /\ syscalls' = [syscalls EXCEPT ![t] = @ + 1]
           /\ errno' = [errno EXCEPT ![t] = ErrnoAfter(@, r)]
           /\ pid' = [pid EXCEPT ![t] = r.pid]
           /\ out' = [out EXCEPT ![t] = AppleResult(r.pid, cred[t])]
    /\ pc' = [pc EXCEPT ![t] = "done"]
    /\ UNCHANGED <<platform, epidSupported, sock, epoch, info, fd, cred, e0, first>>

\* Mutant of Unsupported: the branch queries SO_PEERCRED before it fails.
Unsupported_Queries(t) ==
    /\ platform = "other"
    /\ pc[t] = "branch"
    /\ LET r == GetsockoptPeercred(KernelOf(sock, fd[t]))
       IN  /\ syscalls' = [syscalls EXCEPT ![t] = @ + 1]
           /\ errno' = [errno EXCEPT ![t] = ErrnoAfter(@, r)]
    /\ out' = [out EXCEPT ![t] = UnsupportedPlatform]
    /\ pc' = [pc EXCEPT ![t] = "done"]
    /\ UNCHANGED <<platform, epidSupported, sock, epoch, info, fd, cred, pid,
                   e0, first>>

\* #else: no query at all.
Unsupported(t) ==
    /\ platform = "other"
    /\ pc[t] = "branch"
    /\ out' = [out EXCEPT ![t] = UnsupportedPlatform]
    /\ pc' = [pc EXCEPT ![t] = "done"]
    /\ UNCHANGED <<platform, epidSupported, sock, epoch, info, fd, cred, pid,
                   errno, syscalls, e0, first>>

\* The call returns to its caller: the frame (info, fd, cred) is gone.
\* `first` keeps the outcome of the first call of the current epoch that had
\* a descriptor and ran without the environment changing anything.
Return(t) ==
    /\ pc[t] = "done"
    /\ first' = IF /\ ArgOk(info[t])
                   /\ epoch = e0[t]
                   /\ ~(first.set /\ first.epoch = epoch)
                THEN [set |-> TRUE, fd |-> fd[t], epoch |-> epoch,
                      errno |-> errno[t], out |-> out[t]]
                ELSE first
    /\ pc' = [pc EXCEPT ![t] = "idle"]
    /\ info' = [info EXCEPT ![t] = <<>>]
    /\ fd' = [fd EXCEPT ![t] = 0]
    /\ cred' = [cred EXCEPT ![t] = NoCred]
    /\ pid' = [pid EXCEPT ![t] = 0]
    /\ errno' = [errno EXCEPT ![t] = "0"]
    /\ syscalls' = [syscalls EXCEPT ![t] = 0]
    /\ out' = [out EXCEPT ![t] = NoOutcome]
    /\ e0' = [e0 EXCEPT ![t] = 0]
    /\ UNCHANGED <<platform, epidSupported, sock, epoch>>

\* The environment closes descriptor n, or the descriptor number comes to
\* name something else: the state getsockopt reads changes.
KernelChange(n, k) ==
    /\ epoch < MaxEpoch
    /\ k # sock[n]
    /\ sock' = [sock EXCEPT ![n] = k]
    /\ epoch' = epoch + 1
    /\ UNCHANGED <<platform, epidSupported, pc, info, fd, cred, pid, errno,
                   syscalls, out, e0, first>>

NextWith(T, A, K) ==
    \/ \E t \in T, a \in A : Call(t, a)
    \/ \E t \in T : LinuxQuery(t)
    \/ \E t \in T : AppleQueryCred(t)
    \/ \E t \in T : AppleQueryPid(t)
    \/ \E t \in T : Unsupported(t)
    \/ \E t \in T : Return(t)
    \/ \E n \in Fds, k \in K : KernelChange(n, k)

\* One caller at a time (the JavaScript thread), every argument list, every
\* kernel state.
Next == NextWith({1}, ArgLists, KernelStates)
Spec == InitWith({1}, [Fds -> KernelStates]) /\ [][Next]_vars

\* Several threads inside GetPeerCred at once, each with a descriptor
\* argument; descriptors 0 and 3 start as connected sockets with different
\* peers, and the environment may close them under the running calls.
ConcThreads == 1..NumThreads
ConcArgLists == { <<JsInt(3)>>, <<JsInt(0)>> }
ConcSocks ==
    { [n \in Fds |-> IF n = 0 THEN Connected(77, 0, 0, <<20, 0, 5>>)
                     ELSE Connected(4242, 1000, 1000, <<1000, 20>>)] }
ConcNext == NextWith(ConcThreads, ConcArgLists, {Closed})
ConcSpec == InitWith(ConcThreads, ConcSocks) /\ [][ConcNext]_vars

\* ------------------------------------------------------------------ claims
\* Thread t has finished a call whose outcome the caller has not taken yet.
Done(t) == pc[t] = "done"
\* The environment changed nothing while t's call ran.
Undisturbed(t) == epoch = e0[t]
\* The argument list has a first argument and it is a number.
HasNumber(a) == Len(a) >= 1 /\ a[1].type = "number"
\* A number that is an integer of the signed 32-bit range.
IsInt32Like(v) ==
    /\ v.type = "number"
    /\ v.cls = "finite"
    /\ v.half = 0
    /\ \/ v.hi = 0
       \/ v.neg /\ v.hi = 1 /\ v.lo = 0

\* C1: a call whose first argument is missing or is not a number ends with
\* the InvalidInput error and the null value, and has issued no getsockopt.
C1_InvalidInputBeforeSyscall ==
    \A t \in DOMAIN pc :
        Done(t) /\ ~HasNumber(info[t]) =>
            /\ out[t] = InvalidInput
            /\ out[t].value.null
            /\ syscalls[t] = 0

C1_Witness ==
    \E t \in DOMAIN pc :
        /\ Done(t)
        /\ Len(info[t]) >= 1
        /\ info[t][1].type = "string"
        /\ out[t] = InvalidInput
        /\ syscalls[t] = 0

\* C2: on the __linux__ and __APPLE__ branches, the step that issues the
\* mandatory credential query on a descriptor for which the kernel reports
\* an error ends the call with QueryFailed and the null value after exactly
\* one getsockopt: no success record, no LOCAL_PEEREPID query.
C2_MandatoryFailureIsQueryFailed ==
    [][\A t \in DOMAIN pc :
         ( /\ pc[t] = "branch"
           /\ pc'[t] # "branch"
           /\ platform \in {"linux", "apple"}
           /\ OsError(KernelOf(sock, fd[t])) # "0" )
         => ( /\ pc'[t] = "done"
              /\ out'[t] = (IF platform = "linux" THEN QueryFailedLinux
                            ELSE QueryFailedApple)
              /\ out'[t].value.null
              /\ syscalls'[t] = 1 )]_vars

C2_Witness ==
    \E t \in DOMAIN pc :
        /\ Done(t)
        /\ platform = "apple"
        /\ out[t] = QueryFailedApple
        /\ errno[t] = "ENOTSOCK"
        /\ syscalls[t] = 1

\* C3: on the __APPLE__ branch a call whose LOCAL_PEERCRED query succeeded
\* and whose LOCAL_PEEREPID query failed ends in success with pid 0, uid the
\* structure's cr_uid and gid the structure's cr_groups[0].
C3_PidQueryFailureDegrades ==
    \A t \in DOMAIN pc :
        Done(t) /\ platform = "apple" /\ syscalls[t] = 2 /\ errno[t] # "0" =>
            /\ IsSuccess(out[t])
            /\ out[t].value.pid = 0
            /\ out[t].value.uid = cred[t].cr_uid
            /\ out[t].value.gid = cred[t].cr_groups[1]

C3_Witness ==
    \E t \in DOMAIN pc :
        /\ Done(t)
        /\ platform = "apple"
        /\ syscalls[t] = 2
        /\ errno[t] = "ENOPROTOOPT"
        /\ IsSuccess(out[t])
        /\ out[t].value.pid = 0
        /\ out[t].value.uid = 1000
        /\ out[t].value.gid = 1000

\* C4: on the __linux__ branch a call whose SO_PEERCRED query succeeded
\* returns the pid, uid and gid of the filled ucred unchanged (the kernel's
\* values for the descriptor, when nothing changed under the call) and has
\* issued exactly one getsockopt.
C4_LinuxCopiesVerbatim ==
    \A t \in DOMAIN pc :
        Done(t) /\ platform = "linux" /\ HasNumber(info[t]) /\ errno[t] = "0" =>
            /\ IsSuccess(out[t])
            /\ out[t].value.pid = cred[t].pid
            /\ out[t].value.uid = cred[t].uid
            /\ out[t].value.gid = cred[t].gid
            /\ syscalls[t] = 1
            /\ Undisturbed(t) =>
                 LET k == KernelOf(sock, fd[t])
                 IN  /\ out[t].value.pid = k.pid
                     /\ out[t].value.uid = k.uid
                     /\ out[t].value.gid = k.gid

C4_Witness ==
    \E t \in DOMAIN pc :
        /\ Done(t)
        /\ platform = "linux"
        /\ syscalls[t] = 1
        /\ IsSuccess(out[t])
        /\ out[t].value.pid = 4242
        /\ out[t].value.uid = 501
        /\ out[t].value.gid = 20

\* C5: on the __APPLE__ branch every successful call has uid = cr_uid and
\* gid = the entry at index 0 of cr_groups, and, when the LOCAL_PEEREPID
\* query succeeded, pid = the value that query wrote (the kernel's values
\* for the descriptor when nothing changed under the call).
C5_AppleProjection ==
    \A t \in DOMAIN pc :
        Done(t) /\ platform = "apple" /\ IsSuccess(out[t]) =>
            /\ out[t].value.uid = cred[t].cr_uid
            /\ out[t].value.gid = Head(cred[t].cr_groups)
            /\ errno[t] = "0" => out[t].value.pid = pid[t]
            /\ Undisturbed(t) =>
                 LET k == KernelOf(sock, fd[t])
                 IN  /\ out[t].value.uid = k.uid
                     /\ out[t].value.gid = Head(k.groups)
                     /\ errno[t] = "0" => out[t].value.pid = k.pid

C5_Witness ==
    \E t \in DOMAIN pc :
        /\ Done(t)
        /\ platform = "apple"
        /\ IsSuccess(out[t])
        /\ errno[t] = "0"
        /\ cred[t].cr_groups = <<20, 0, 5>>
        /\ out[t].value.pid = 77
        /\ out[t].value.uid = 0
        /\ out[t].value.gid = 20

\* C6: two calls that fail with QueryFailed on different OS errors give
\* their callers different error values.
C6_QueryFailedCarriesOsError ==
    \A t \in DOMAIN pc :
        ( /\ Done(t)
          /\ IsQueryFailed(out[t])
          /\ first.set
          /\ IsQueryFailed(first.out)
          /\ first.errno # errno[t] )
        => first.out # out[t]

\* C7: a call whose first argument is a number but not an integer of the
\* signed 32-bit range (fractional, NaN, infinite, out of range) ends with
\* InvalidInput and has issued no getsockopt.
C7_NonIntegerIsInvalidInput ==
    \A t \in DOMAIN pc :
        Done(t) /\ HasNumber(info[t]) /\ ~IsInt32Like(info[t][1]) =>
            /\ out[t] = InvalidInput
            /\ syscalls[t] = 0

\* C8: on the branch that is neither __linux__ nor __APPLE__ every call with
\* a number argument ends with UnsupportedPlatform and the null value, and
\* has issued no getsockopt.
C8_UnsupportedNoSyscall ==
    \A t \in DOMAIN pc :
        Done(t) /\ platform = "other" /\ HasNumber(info[t]) =>
            /\ out[t] = UnsupportedPlatform
            /\ out[t].value.null
            /\ syscalls[t] = 0

C8_Witness ==
    \E t \in DOMAIN pc :
        /\ Done(t)
        /\ platform = "other"
        /\ HasNumber(info[t])
        /\ fd[t] = 3
        /\ sock[3].st = "conn"
        /\ out[t] = UnsupportedPlatform

\* C9: while the environment changes no descriptor, a call on the descriptor
\* of an earlier call ends with the outcome (record or error) that the
\* first such call gave its caller.
C9_Idempotent ==
    \A t \in DOMAIN pc :
        ( /\ Done(t)
          /\ HasNumber(info[t])
          /\ Undisturbed(t)
          /\ first.set
          /\ first.epoch = epoch
          /\ first.fd = fd[t] )
        => out[t] = first.out

C9_Witness ==
    \E t \in DOMAIN pc :
        /\ Done(t)
        /\ HasNumber(info[t])
        /\ Undisturbed(t)
        /\ first.set
        /\ first.epoch = epoch
        /\ epoch > 0
        /\ first.fd = fd[t]
        /\ IsSuccess(first.out)
        /\ out[t] = first.out

\* The outcome of a call with argument list a that runs alone, start to end,
\* against the kernel state s.
RunAlone(a, s) ==
    IF ~HasNumber(a) THEN InvalidInput
    ELSE LET k == KernelOf(s, Int32Value(a[1]))
         IN  CASE platform = "linux" ->
                    LET r == GetsockoptPeercred(k)
                    IN  IF r.rc < 0 THEN QueryFailedLinux
                        ELSE ReturnObject(r.cred.pid, r.cred.uid, r.cred.gid)
               [] platform = "apple" ->
                    LET r == GetsockoptLocalPeercred(k)
                        q == GetsockoptLocalPeerepid(k, epidSupported, 0)
                    IN  IF r.rc < 0 THEN QueryFailedApple
                        ELSE ReturnObject(q.pid, r.cred.cr_uid,
                                          r.cred.cr_groups[1])
               [] OTHER -> UnsupportedPlatform

\* C10: with several threads inside GetPeerCred at once, on the same or on
\* different descriptors, a call under which the environment changed
\* nothing ends with the outcome it would have had running alone against
\* the kernel's state.
C10_ConcurrentCallsIndependent ==
    \A t \in DOMAIN pc :
        Done(t) /\ Undisturbed(t) => out[t] = RunAlone(info[t], sock)

C10_Witness ==
    \E t, u \in DOMAIN pc :
        /\ t # u
        /\ platform = "apple"
        /\ epidSupported
        /\ Done(t) /\ Done(u)
        /\ Undisturbed(t) /\ Undisturbed(u)
        /\ fd[t] = 3 /\ fd[u] = 0
        /\ IsSuccess(out[t]) /\ IsSuccess(out[u])
        /\ out[t].value.pid = 4242
        /\ out[u].value.pid = 77

====
